---- MODULE Spec2Model ----
(***************************************************************************)
(* The video-generation pipeline of the AI news summariser.                *)
(*                                                                         *)
(* One run of VideoService.generateVideoFromText is modelled, in each of   *)
(* the four implementations the repository holds:                          *)
(*   "videoService"  the local pipeline of app/services/videoService.ts    *)
(*   "ttsLocal"      the local pipeline kept in app/services/ttsService.ts *)
(*   "ttsDirect"     the direct-provider (HeyGen) pipeline kept in         *)
(*                   app/services/ttsService.ts                            *)
(*   "part006"       the direct-provider pipeline of unnamed/part_006      *)
(* The run advances one awaited call at a time; what the network, the      *)
(* encoder and the file system answer is chosen by the environment.        *)
(***************************************************************************)
EXTENDS Naturals, Sequences, FiniteSets

VARIABLES
    variant,        \* which implementation runs
    syncKey,        \* process.env.SYNC_API_KEY is set
    heygenKey,      \* process.env.HEYGEN_API_KEY is set
    pc,             \* position of the run
    audioPath,      \* local audioPath is non-null
    tempVideoPath,  \* local tempVideoPath is non-null
    audioDuration,  \* value returned by getAudioDuration (0 before)
    files,          \* temporary files present in os.tmpdir()
    videoUrl,       \* local videoUrl ("" stands for null / empty)
    usedFallback,   \* local usedFallback
    pending,        \* completion the try block ended with, kept over finally
    result,         \* how generateVideoFromText ended
    error,          \* message chain of the error generateVideoFromText threw
    lipOutcome,     \* how generateLipSyncVideo ended
    lipError,       \* message chain of the error generateLipSyncVideo threw
    lipErrorKind,   \* constructor of the error generateLipSyncVideo threw
    fbOutcome,      \* how generateFallbackVideo ended
    fallbackError,  \* message chain of the error generateFallbackVideo threw
    uploadedUrl,    \* videoUrl local of generateFallbackVideo
    attempts,       \* attempts counter of the running polling loop
    calls,          \* number of invocations of each external stage
    lipStatus,      \* last answer of the lip-sync status endpoint
    hgStatus,       \* last answer of the HeyGen status endpoint
    unlinked,       \* files fs.unlink was called on
    unlinkFailed,   \* files whose fs.unlink threw
    cleanupIdx,     \* index of the finally loop over filesToCleanup
    faults,         \* stages whose external call failed in this run
    hgOutcome,      \* how the direct-provider run ended
    response,       \* what POST /api/generate-video answered
    dbCalls,        \* number of prisma.videoSummary.create calls
    recorded,       \* data of the prisma.videoSummary.create call
    lastDelay,      \* milliseconds of the last setTimeout wait of a loop
    initialWait,    \* milliseconds waited before the first status request
    now,            \* Date.now() of the process (two-run model)
    runPc,          \* position of each of two concurrent local runs
    runPaths,       \* temporary paths each concurrent run has chosen
    disk,           \* paths present in os.tmpdir() (two-run model)
    inputText,      \* config.text handed to generateHeyGenVideo (text model)
    submittedText   \* input_text sent to the provider (text model)

vars == <<variant, syncKey, heygenKey, pc, audioPath, tempVideoPath,
          audioDuration, files, videoUrl, usedFallback, pending, result,
          error, lipOutcome, lipError, lipErrorKind, fbOutcome, fallbackError, uploadedUrl,
          attempts, calls, lipStatus, hgStatus, unlinked, unlinkFailed,
          cleanupIdx, faults, hgOutcome, response, dbCalls, recorded,
          lastDelay, initialWait, now, runPc, runPaths, disk, inputText,
          submittedText>>

\* State of the POST handler around generateVideoFromText
routeVars == <<response, dbCalls, recorded>>

\* State of the two concurrent runs
concVars == <<now, runPc, runPaths, disk>>

\* State of the text-sanitization model
textVars == <<inputText, submittedText>>

\* State of the models kept beside the single run
sideVars == <<concVars, textVars>>

\* What no step of generateVideoFromText changes
base == <<variant, syncKey, heygenKey, routeVars, sideVars>>

\* What no step outside the polling loops changes
env == <<base, lastDelay, initialWait>>

\* State of the local pipeline, which the direct-provider pipeline never uses.
localVars == <<audioPath, tempVideoPath, audioDuration, files, usedFallback,
               lipOutcome, lipError, lipErrorKind, fbOutcome, fallbackError, uploadedUrl,
               lipStatus, unlinked, unlinkFailed, cleanupIdx, faults>>

----------------------------------------------------------------------------
(* Implementations *)

LocalVariants == {"videoService", "ttsLocal"}

DirectVariants == {"ttsDirect", "part006"}

Variants == LocalVariants \cup DirectVariants

(* Program constants *)

maxAttempts == 30

DefaultDuration == 30

\* const pollInterval = 10000 of generateLipSyncVideo
LipSyncPollInterval == 10000

\* Math.floor(Math.random() * 5000)
JitterRange == 5000

(* Values the environment hands back *)

NoUrl == ""

LipSyncUrl == "https://sync/output.mp4"

FallbackUrl == "https://cloudinary/enhanced.mp4"

HeyGenUrl == "https://heygen/video.mp4"

\* parseFloat(stdout.trim()) of what ffprobe prints, when it is a number
DurationSamples == {0, 12, 45}

Stages == {"synth", "probe", "compose", "lipsync", "upload", "submit",
           "poll", "fallback", "head"}

NoLipStatus == [status |-> "NONE", outputUrl |-> NoUrl, error |-> ""]

NoHgStatus == [code |-> 0, status |-> "NONE", video_url |-> NoUrl,
               live |-> "none"]

NoResponse == [status |-> 0, success |-> FALSE, retryable |-> FALSE,
               videoUrl |-> NoUrl, usedFallback |-> FALSE, error |-> <<>>]

NoRecord == [created |-> FALSE, videoUrl |-> NoUrl, usedFallback |-> FALSE]

Runs == {1, 2}

PathKinds == {"speech", "temp", "enhanced"}

\* No path chosen yet; Date.now() is positive
NoStamp == 0

NoPath == [k \in PathKinds |-> NoStamp]

\* No text handed over, nothing submitted
NoText == [words |-> 0, wordLen |-> 0, vowels |-> TRUE, breaks |-> FALSE,
           dropped |-> 0]

NoSubmission == [sent |-> FALSE, length |-> 0, generic |-> FALSE]

Called(stage) == [calls EXCEPT ![stage] = @ + 1]

----------------------------------------------------------------------------
(* Error wrapping done by the catch blocks *)

\* generateVideoFromText: catch (error) { throw ... }
OuterCatch_Generic(v, e) ==
    IF v = "videoService"
    THEN <<"Failed to generate video from text", "Unknown error">>
    ELSE <<"Unknown error">>

OuterCatch(v, e) ==
    IF v = "videoService"
    THEN <<"Failed to generate video from text">> \o e
    ELSE e

\* generateLipSyncVideo: catch (error) { throw ... }
LipSyncCatch(v, e) ==
    IF v = "videoService"
    THEN <<"Failed to generate lip sync video">> \o e
    ELSE e

\* generateFallbackVideo: catch (error) { throw ... }
FallbackCatch(v, e) ==
    IF v = "videoService"
    THEN <<"Failed to generate fallback video">> \o e
    ELSE e

\* if (!videoUrl)
IsFalsyUrl_Never(u) == FALSE

IsFalsyUrl(u) == u = NoUrl

\* [audioPath, tempVideoPath].filter(Boolean)
FilesToCleanup_VideoOnly(a, t) ==
    IF t THEN <<"temp">> ELSE <<>>

FilesToCleanup(a, t) ==
    (IF a THEN <<"speech">> ELSE <<>>) \o (IF t THEN <<"temp">> ELSE <<>>)

----------------------------------------------------------------------------
InitRun ==
    /\ variant \in Variants
    /\ syncKey \in BOOLEAN
    /\ heygenKey \in BOOLEAN
    /\ pc = "start"
    /\ audioPath = FALSE
    /\ tempVideoPath = FALSE
    /\ audioDuration = 0
    /\ files = {}
    /\ videoUrl = NoUrl
    /\ usedFallback = FALSE
    /\ pending = "none"
    /\ result = "none"
    /\ error = <<>>
    /\ lipOutcome = "none"
    /\ lipError = <<>>
    /\ lipErrorKind = "none"
    /\ fbOutcome = "none"
    /\ fallbackError = <<>>
    /\ uploadedUrl = NoUrl
    /\ attempts = 0
    /\ calls = [s \in Stages |-> 0]
    /\ lipStatus = NoLipStatus
    /\ hgStatus = NoHgStatus
    /\ unlinked = {}
    /\ unlinkFailed = {}
    /\ cleanupIdx = 1
    /\ faults = {}
    /\ hgOutcome = "none"
    /\ response = NoResponse
    /\ dbCalls = 0
    /\ recorded = NoRecord
    /\ lastDelay = 0
    /\ initialWait = 0
    /\ now = 1
    /\ runPc = [r \in Runs |-> "synth"]
    /\ runPaths = [r \in Runs |-> NoPath]
    /\ disk = {}

Init ==
    /\ InitRun
    /\ inputText = NoText
    /\ submittedText = NoSubmission

----------------------------------------------------------------------------
(* Local pipeline: generateVideoFromText of videoService.ts / ttsService.ts *)

\* An exception reaches the catch of generateVideoFromText; finally follows.
ThrowToCaller(e) ==
    /\ error' = OuterCatch(variant, e)
    /\ pending' = "throw"
    /\ pc' = "cleanup"

\* 1. audioPath = await this.ttsService.generateSpeech(text, voiceType)
GenerateSpeech_SwallowError ==
    /\ pc = "start"
    /\ variant \in LocalVariants
    /\ calls' = Called("synth")
    /\ \E r \in {"ok", "requestError", "noAudio", "writeError"} :
         IF r = "ok"
         THEN /\ audioPath' = TRUE
              /\ files' = files \cup {"speech"}
              /\ pc' = "probe"
              /\ UNCHANGED <<error, pending, faults>>
         ELSE /\ pc' = "probe"
              /\ faults' = faults \cup {"synth"}
              /\ UNCHANGED <<audioPath, files, error, pending>>
    /\ UNCHANGED <<env, hgOutcome, tempVideoPath, audioDuration, videoUrl, usedFallback,
                   result, lipOutcome, lipError, lipErrorKind, fbOutcome, fallbackError,
                   uploadedUrl, attempts, lipStatus, hgStatus, unlinked,
                   unlinkFailed, cleanupIdx>>

GenerateSpeech ==
    /\ pc = "start"
    /\ variant \in LocalVariants
    /\ calls' = Called("synth")
    /\ \E r \in {"ok", "requestError", "noAudio", "writeError"} :
         IF r = "ok"
         THEN /\ audioPath' = TRUE
              /\ files' = files \cup {"speech"}
              /\ pc' = "probe"
              /\ UNCHANGED <<error, pending, faults>>
         ELSE /\ ThrowToCaller(<<"Failed to generate speech from text">>)
              /\ faults' = faults \cup {"synth"}
              /\ UNCHANGED <<audioPath, files>>
    /\ UNCHANGED <<env, hgOutcome, tempVideoPath, audioDuration, videoUrl, usedFallback,
                   result, lipOutcome, lipError, lipErrorKind, fbOutcome, fallbackError,
                   uploadedUrl, attempts, lipStatus, hgStatus, unlinked,
                   unlinkFailed, cleanupIdx>>

\* 2. audioDuration = await this.ttsService.getAudioDuration(audioPath)
\* 3. tempVideoPath = path.join(os.tmpdir(), `temp-${Date.now()}.mp4`)
GetAudioDuration ==
    /\ pc = "probe"
    /\ calls' = Called("probe")
    /\ \E r \in {"ok", "nan", "execError"} :
         \E d \in DurationSamples :
           audioDuration' = IF r = "ok" THEN d ELSE DefaultDuration
    /\ tempVideoPath' = TRUE
    /\ pc' = "compose"
    /\ UNCHANGED <<env, hgOutcome, faults, audioPath, files, videoUrl, usedFallback, pending,
                   result, error, lipOutcome, lipError, lipErrorKind, fbOutcome,
                   fallbackError, uploadedUrl, attempts, lipStatus, hgStatus,
                   unlinked, unlinkFailed, cleanupIdx>>

\* 4. await this.generateVideoFromImage({...})
GenerateVideoFromImage_SwallowError ==
    /\ pc = "compose"
    /\ calls' = Called("compose")
    /\ \E ok \in BOOLEAN, leftover \in BOOLEAN :
         IF ok
         THEN /\ files' = files \cup {"temp"}
              /\ pc' = "lipsync"
              /\ UNCHANGED <<error, pending, faults>>
         ELSE /\ files' = IF leftover THEN files \cup {"temp"} ELSE files
              /\ faults' = faults \cup {"compose"}
              /\ pc' = "lipsync"
              /\ UNCHANGED <<error, pending>>
    /\ UNCHANGED <<env, hgOutcome, audioPath, tempVideoPath, audioDuration, videoUrl,
                   usedFallback, result, lipOutcome, lipError, lipErrorKind, fbOutcome,
                   fallbackError, uploadedUrl, attempts, lipStatus, hgStatus,
                   unlinked, unlinkFailed, cleanupIdx>>

GenerateVideoFromImage ==
    /\ pc = "compose"
    /\ calls' = Called("compose")
    /\ \E ok \in BOOLEAN, leftover \in BOOLEAN :
         IF ok
         THEN /\ files' = files \cup {"temp"}
              /\ pc' = "lipsync"
              /\ UNCHANGED <<error, pending, faults>>
         ELSE /\ files' = IF leftover THEN files \cup {"temp"} ELSE files
              /\ faults' = faults \cup {"compose"}
              /\ ThrowToCaller(<<"Failed to generate video from image">>)
    /\ UNCHANGED <<env, hgOutcome, audioPath, tempVideoPath, audioDuration, videoUrl,
                   usedFallback, result, lipOutcome, lipError, lipErrorKind, fbOutcome,
                   fallbackError, uploadedUrl, attempts, lipStatus, hgStatus,
                   unlinked, unlinkFailed, cleanupIdx>>

----------------------------------------------------------------------------
(* generateLipSyncVideo *)

LipSyncStatuses == {"PENDING", "PROCESSING", "COMPLETED", "FAILED"}

\* Answers of GET /v2/generate/{jobId}; status "ERR" is a rejected request.
LipSyncResponses ==
    {[status |-> s, outputUrl |-> u, error |-> d] :
        s \in LipSyncStatuses \ {"FAILED"}, u \in {NoUrl, LipSyncUrl},
        d \in {""}}
    \cup {[status |-> "FAILED", outputUrl |-> NoUrl, error |-> d] :
        d \in {"", "provider detail"}}
    \cup {[status |-> "ERR", outputUrl |-> NoUrl, error |-> ""]}

\* The two tests of the polling loop body.
LipSyncVerdict_StatusOnly(resp) ==
    IF resp.status = "ERR" THEN "error"
    ELSE IF resp.status = "COMPLETED" THEN "return"
    ELSE IF resp.status = "FAILED" THEN "failed"
    ELSE "wait"

LipSyncVerdict_CaseMismatch(resp) ==
    IF resp.status = "ERR" THEN "error"
    ELSE IF resp.status = "completed" /\ resp.outputUrl # NoUrl THEN "return"
    ELSE IF resp.status = "FAILED" THEN "failed"
    ELSE "wait"

LipSyncVerdict(resp) ==
    IF resp.status = "ERR" THEN "error"
    ELSE IF resp.status = "COMPLETED" /\ resp.outputUrl # NoUrl THEN "return"
    ELSE IF resp.status = "FAILED" THEN "failed"
    ELSE "wait"

\* throw new Error(`Job failed: ${statusResponse.data.error || 'Unknown error'}`)
\* throw new Error(statusResponse.data.error || 'Job failed')
JobFailedMessage_NoDetail(v, resp) ==
    IF v = "videoService" THEN <<"Job failed", "Unknown error">>
    ELSE <<"Job failed">>

JobFailedMessage(v, resp) ==
    IF v = "videoService"
    THEN <<"Job failed", IF resp.error # "" THEN resp.error ELSE "Unknown error">>
    ELSE <<IF resp.error # "" THEN resp.error ELSE "Job failed">>

\* Messages of the errors thrown inside generateLipSyncVideo
LipSyncMessage(v, kind) ==
    IF v = "videoService"
    THEN CASE kind = "nokey" -> <<"SYNC_API_KEY environment variable is not set">>
           [] kind = "noId" -> <<"No job ID in SyncLabs response">>
           [] kind = "timeout" -> <<"Video processing timed out after 5 minutes">>
           [] kind \in {"uploadVideo", "uploadAudio"} ->
                  <<"Failed to upload file to Cloudinary">>
           [] OTHER -> <<"Request failed">>
    ELSE CASE kind = "nokey" -> <<"SYNC_API_KEY not set">>
           [] kind = "noId" -> <<"No job ID in response">>
           [] kind = "timeout" -> <<"Video processing timed out">>
           [] kind \in {"uploadVideo", "uploadAudio"} ->
                  <<"Failed to upload file to Cloudinary">>
           [] OTHER -> <<"Request failed">>

\* Every throw of generateLipSyncVideo is `throw new Error(...)`; its catch
\* block throws a new Error again (videoService.ts) or the caught object
\* itself (ttsService.ts), which for a rejected axios request is axios's own
\* error
ThrownClass(v, kind) ==
    IF v = "ttsLocal" /\ kind \in {"submitError", "pollError"}
    THEN "AxiosError"
    ELSE "Error"

\* generateLipSyncVideo throws; the catch of the inner try of
\* generateVideoFromText takes over and calls generateFallbackVideo.
OnLipSyncError_Abort(kind, e) ==
    /\ lipOutcome' = kind
    /\ lipError' = LipSyncCatch(variant, e)
    /\ lipErrorKind' = ThrownClass(variant, kind)
    /\ ThrowToCaller(LipSyncCatch(variant, e))

OnLipSyncError(kind, e) ==
    /\ lipOutcome' = kind
    /\ lipError' = LipSyncCatch(variant, e)
    /\ lipErrorKind' = ThrownClass(variant, kind)
    /\ pc' = "fb_encode"
    /\ UNCHANGED <<error, pending>>

\* 5. videoUrl = await this.generateLipSyncVideo({...}): the credential check
LipSyncKeyCheck_Abort ==
    /\ pc = "lipsync"
    /\ calls' = Called("lipsync")
    /\ IF syncKey
       THEN /\ pc' = "upload_video"
            /\ UNCHANGED <<lipOutcome, lipError, lipErrorKind, error, pending>>
       ELSE OnLipSyncError_Abort("nokey", LipSyncMessage(variant, "nokey"))
    /\ UNCHANGED <<env, hgOutcome, faults, audioPath, tempVideoPath, audioDuration, files,
                   videoUrl, usedFallback, result, fbOutcome, fallbackError,
                   uploadedUrl, attempts, lipStatus, hgStatus, unlinked,
                   unlinkFailed, cleanupIdx>>

LipSyncKeyCheck ==
    /\ pc = "lipsync"
    /\ calls' = Called("lipsync")
    /\ IF syncKey
       THEN /\ pc' = "upload_video"
            /\ UNCHANGED <<lipOutcome, lipError, lipErrorKind, error, pending>>
       ELSE OnLipSyncError("nokey", LipSyncMessage(variant, "nokey"))
    /\ UNCHANGED <<env, hgOutcome, faults, audioPath, tempVideoPath, audioDuration, files,
                   videoUrl, usedFallback, result, fbOutcome, fallbackError,
                   uploadedUrl, attempts, lipStatus, hgStatus, unlinked,
                   unlinkFailed, cleanupIdx>>

\* const videoUrl = await this.cloudinaryService.uploadFile(config.videoPath)
UploadVideo ==
    /\ pc = "upload_video"
    /\ calls' = Called("upload")
    /\ \E ok \in BOOLEAN :
         IF ok
         THEN /\ pc' = "upload_audio"
              /\ UNCHANGED <<lipOutcome, lipError, lipErrorKind, error, pending>>
         ELSE OnLipSyncError("uploadVideo",
                             LipSyncMessage(variant, "uploadVideo"))
    /\ UNCHANGED <<env, hgOutcome, faults, audioPath, tempVideoPath, audioDuration, files,
                   videoUrl, usedFallback, result, fbOutcome, fallbackError,
                   uploadedUrl, attempts, lipStatus, hgStatus, unlinked,
                   unlinkFailed, cleanupIdx>>

\* const audioUrl = await this.cloudinaryService.uploadFile(config.audioPath)
UploadAudio ==
    /\ pc = "upload_audio"
    /\ calls' = Called("upload")
    /\ \E ok \in BOOLEAN :
         IF ok
         THEN /\ pc' = "submit"
              /\ UNCHANGED <<lipOutcome, lipError, lipErrorKind, error, pending>>
         ELSE OnLipSyncError("uploadAudio",
                             LipSyncMessage(variant, "uploadAudio"))
    /\ UNCHANGED <<env, hgOutcome, faults, audioPath, tempVideoPath, audioDuration, files,
                   videoUrl, usedFallback, result, fbOutcome, fallbackError,
                   uploadedUrl, attempts, lipStatus, hgStatus, unlinked,
                   unlinkFailed, cleanupIdx>>

\* const response = await axios.post('https://api.sync.so/v2/generate', ...)
\* if (!response.data?.id) throw ...; let attempts = 0
SubmitLipSync_PollAnyway ==
    /\ pc = "submit"
    /\ calls' = Called("submit")
    /\ \E r \in {"id", "noId", "networkError"} :
         IF r = "id"
         THEN /\ pc' = "poll"
              /\ UNCHANGED <<lipOutcome, lipError, lipErrorKind, error,
                             pending, faults>>
         ELSE IF r = "noId"
         THEN /\ pc' = "poll"
              /\ faults' = faults \cup {"noId"}
              /\ UNCHANGED <<lipOutcome, lipError, lipErrorKind, error,
                             pending>>
         ELSE /\ OnLipSyncError("submitError",
                                LipSyncMessage(variant, "submitError"))
              /\ UNCHANGED faults
    /\ attempts' = 0
    /\ UNCHANGED <<env, hgOutcome, audioPath, tempVideoPath, audioDuration, files,
                   videoUrl, usedFallback, result, fbOutcome, fallbackError,
                   uploadedUrl, lipStatus, hgStatus, unlinked, unlinkFailed,
                   cleanupIdx>>

SubmitLipSync ==
    /\ pc = "submit"
    /\ calls' = Called("submit")
    /\ \E r \in {"id", "noId", "networkError"} :
         IF r = "id"
         THEN /\ pc' = "poll"
              /\ UNCHANGED <<lipOutcome, lipError, lipErrorKind, error,
                             pending, faults>>
         ELSE IF r = "noId"
         THEN /\ OnLipSyncError("noId", LipSyncMessage(variant, "noId"))
              /\ faults' = faults \cup {"noId"}
         ELSE /\ OnLipSyncError("submitError",
                                LipSyncMessage(variant, "submitError"))
              /\ UNCHANGED faults
    /\ attempts' = 0
    /\ UNCHANGED <<env, hgOutcome, audioPath, tempVideoPath, audioDuration, files,
                   videoUrl, usedFallback, result, fbOutcome, fallbackError,
                   uploadedUrl, lipStatus, hgStatus, unlinked, unlinkFailed,
                   cleanupIdx>>

\* One iteration of while (attempts < maxAttempts) { ... }
LipSyncPoll_OffByOne ==
    /\ pc = "poll"
    /\ attempts <= maxAttempts
    /\ calls' = Called("poll")
    /\ \E resp \in LipSyncResponses :
         /\ lipStatus' = resp
         /\ LET verdict == LipSyncVerdict(resp) IN
            CASE verdict = "return" ->
                   /\ videoUrl' = resp.outputUrl
                   /\ usedFallback' = FALSE
                   /\ lipOutcome' = "completed"
                   /\ pc' = "check_url"
                   /\ UNCHANGED <<attempts, lipError, lipErrorKind, error, pending,
                                  lastDelay>>
              [] verdict = "failed" ->
                   /\ OnLipSyncError("failed", JobFailedMessage(variant, resp))
                   /\ UNCHANGED <<attempts, videoUrl, usedFallback, lastDelay>>
              [] verdict = "error" ->
                   /\ OnLipSyncError("pollError",
                                   LipSyncMessage(variant, "pollError"))
                   /\ UNCHANGED <<attempts, videoUrl, usedFallback, lastDelay>>
              [] OTHER ->
                   /\ lastDelay' = LipSyncPollInterval
                   /\ attempts' = attempts + 1
                   /\ UNCHANGED <<pc, videoUrl, usedFallback, lipOutcome,
                                  lipError, lipErrorKind, error, pending>>
    /\ UNCHANGED <<base, initialWait, hgOutcome, faults, audioPath, tempVideoPath, audioDuration, files,
                   result, fbOutcome, fallbackError, uploadedUrl, hgStatus,
                   unlinked, unlinkFailed, cleanupIdx>>

LipSyncPoll ==
    /\ pc = "poll"
    /\ attempts < maxAttempts
    /\ calls' = Called("poll")
    /\ \E resp \in LipSyncResponses :
         /\ lipStatus' = resp
         /\ LET verdict == LipSyncVerdict(resp) IN
            CASE verdict = "return" ->
                   /\ videoUrl' = resp.outputUrl
                   /\ usedFallback' = FALSE
                   /\ lipOutcome' = "completed"
                   /\ pc' = "check_url"
                   /\ UNCHANGED <<attempts, lipError, lipErrorKind, error, pending,
                                  lastDelay>>
              [] verdict = "failed" ->
                   /\ OnLipSyncError("failed", JobFailedMessage(variant, resp))
                   /\ UNCHANGED <<attempts, videoUrl, usedFallback, lastDelay>>
              [] verdict = "error" ->
                   /\ OnLipSyncError("pollError",
                                   LipSyncMessage(variant, "pollError"))
                   /\ UNCHANGED <<attempts, videoUrl, usedFallback, lastDelay>>
              [] OTHER ->
                   /\ lastDelay' = LipSyncPollInterval
                   /\ attempts' = attempts + 1
                   /\ UNCHANGED <<pc, videoUrl, usedFallback, lipOutcome,
                                  lipError, lipErrorKind, error, pending>>
    /\ UNCHANGED <<base, initialWait, hgOutcome, faults, audioPath, tempVideoPath, audioDuration, files,
                   result, fbOutcome, fallbackError, uploadedUrl, hgStatus,
                   unlinked, unlinkFailed, cleanupIdx>>

\* The loop ends: throw new Error('Video processing timed out after 5 minutes')
LipSyncTimeout_Abort ==
    /\ pc = "poll"
    /\ attempts >= maxAttempts
    /\ OnLipSyncError_Abort("timeout", LipSyncMessage(variant, "timeout"))
    /\ UNCHANGED <<env, hgOutcome, faults, audioPath, tempVideoPath, audioDuration, files,
                   videoUrl, usedFallback, result, fbOutcome, fallbackError,
                   uploadedUrl, attempts, calls, lipStatus, hgStatus,
                   unlinked, unlinkFailed, cleanupIdx>>

LipSyncTimeout ==
    /\ pc = "poll"
    /\ attempts >= maxAttempts
    /\ OnLipSyncError("timeout", LipSyncMessage(variant, "timeout"))
    /\ UNCHANGED <<env, hgOutcome, faults, audioPath, tempVideoPath, audioDuration, files,
                   videoUrl, usedFallback, result, fbOutcome, fallbackError,
                   uploadedUrl, attempts, calls, lipStatus, hgStatus,
                   unlinked, unlinkFailed, cleanupIdx>>

----------------------------------------------------------------------------
(* generateFallbackVideo *)

\* generateFallbackVideo throws; generateVideoFromText's catch rethrows.
FallbackThrow(e) ==
    /\ fbOutcome' = "threw"
    /\ fallbackError' = FallbackCatch(variant, e)
    /\ ThrowToCaller(FallbackCatch(variant, e))

\* await execPromise(ffmpegCommand) writing enhanced-*.mp4
FallbackEncode ==
    /\ pc = "fb_encode"
    /\ calls' = Called("fallback")
    /\ \E ok \in BOOLEAN, leftover \in BOOLEAN :
         IF ok
         THEN /\ files' = files \cup {"enhanced"}
              /\ pc' = "fb_upload"
              /\ UNCHANGED <<fbOutcome, fallbackError, error, pending>>
         ELSE /\ files' = IF leftover THEN files \cup {"enhanced"} ELSE files
              /\ FallbackThrow(<<"Command failed">>)
    /\ UNCHANGED <<env, hgOutcome, faults, audioPath, tempVideoPath, audioDuration, videoUrl,
                   usedFallback, result, lipOutcome, lipError, lipErrorKind, uploadedUrl,
                   attempts, lipStatus, hgStatus, unlinked, unlinkFailed,
                   cleanupIdx>>

\* const videoUrl = await this.cloudinaryService.uploadFile(enhancedVideoPath)
FallbackUpload ==
    /\ pc = "fb_upload"
    /\ calls' = Called("upload")
    /\ \E r \in {"url", "empty", "fail"} :
         IF r = "fail"
         THEN /\ FallbackThrow(<<"Failed to upload file to Cloudinary">>)
              /\ UNCHANGED uploadedUrl
         ELSE /\ uploadedUrl' = IF r = "url" THEN FallbackUrl ELSE NoUrl
              /\ pc' = "fb_unlink"
              /\ UNCHANGED <<fbOutcome, fallbackError, error, pending>>
    /\ UNCHANGED <<env, hgOutcome, faults, audioPath, tempVideoPath, audioDuration, files,
                   videoUrl, usedFallback, result, lipOutcome, lipError, lipErrorKind,
                   attempts, lipStatus, hgStatus, unlinked, unlinkFailed,
                   cleanupIdx>>

\* videoUrl = await this.generateFallbackVideo(tempVideoPath);
\* usedFallback = true
FallbackReturn_FlagUnset(url) ==
    /\ videoUrl' = url
    /\ usedFallback' = FALSE
    /\ fbOutcome' = IF url = NoUrl THEN "empty" ELSE "url"
    /\ pc' = "check_url"

FallbackReturn(url) ==
    /\ videoUrl' = url
    /\ usedFallback' = TRUE
    /\ fbOutcome' = IF url = NoUrl THEN "empty" ELSE "url"
    /\ pc' = "check_url"

\* await fs.unlink(enhancedVideoPath), guarded by try/catch in
\* videoService.ts only; then return videoUrl
FallbackUnlink_DeletesBaseline ==
    /\ pc = "fb_unlink"
    /\ unlinked' = unlinked \cup {"enhanced", "temp"}
    /\ \E ok \in BOOLEAN :
         IF ok
         THEN /\ files' = files \ {"enhanced", "temp"}
              /\ FallbackReturn(uploadedUrl)
              /\ UNCHANGED <<unlinkFailed, fallbackError, error, pending>>
         ELSE /\ unlinkFailed' = unlinkFailed \cup {"enhanced"}
              /\ UNCHANGED files
              /\ IF variant = "videoService"
                 THEN /\ FallbackReturn(uploadedUrl)
                      /\ UNCHANGED <<fallbackError, error, pending>>
                 ELSE /\ FallbackThrow(<<"unlink failed">>)
                      /\ UNCHANGED <<videoUrl, usedFallback>>
    /\ UNCHANGED <<env, hgOutcome, faults, audioPath, tempVideoPath, audioDuration, result,
                   lipOutcome, lipError, lipErrorKind, uploadedUrl, attempts, calls,
                   lipStatus, hgStatus, cleanupIdx>>

FallbackUnlink ==
    /\ pc = "fb_unlink"
    /\ unlinked' = unlinked \cup {"enhanced"}
    /\ \E ok \in BOOLEAN :
         IF ok
         THEN /\ files' = files \ {"enhanced"}
              /\ FallbackReturn(uploadedUrl)
              /\ UNCHANGED <<unlinkFailed, fallbackError, error, pending>>
         ELSE /\ unlinkFailed' = unlinkFailed \cup {"enhanced"}
              /\ UNCHANGED files
              /\ IF variant = "videoService"
                 THEN /\ FallbackReturn(uploadedUrl)
                      /\ UNCHANGED <<fallbackError, error, pending>>
                 ELSE /\ FallbackThrow(<<"unlink failed">>)
                      /\ UNCHANGED <<videoUrl, usedFallback>>
    /\ UNCHANGED <<env, hgOutcome, faults, audioPath, tempVideoPath, audioDuration, result,
                   lipOutcome, lipError, lipErrorKind, uploadedUrl, attempts, calls,
                   lipStatus, hgStatus, cleanupIdx>>

----------------------------------------------------------------------------
(* End of generateVideoFromText: the URL test and the finally block *)

\* if (!videoUrl) throw new Error(...); return { videoUrl, usedFallback }
CheckUrl ==
    /\ pc = "check_url"
    /\ IF IsFalsyUrl(videoUrl)
       THEN ThrowToCaller(<<"Failed to generate video: No URL returned">>)
       ELSE /\ pending' = "return"
            /\ pc' = "cleanup"
            /\ UNCHANGED error
    /\ UNCHANGED <<env, hgOutcome, faults, audioPath, tempVideoPath, audioDuration, files,
                   videoUrl, usedFallback, result, lipOutcome, lipError, lipErrorKind,
                   fbOutcome, fallbackError, uploadedUrl, attempts, calls,
                   lipStatus, hgStatus, unlinked, unlinkFailed, cleanupIdx>>

\* for (const file of filesToCleanup) { try { await fs.unlink(file) } catch {} }
CleanupUnlink ==
    /\ pc = "cleanup"
    /\ cleanupIdx <= Len(FilesToCleanup(audioPath, tempVideoPath))
    /\ LET f == FilesToCleanup(audioPath, tempVideoPath)[cleanupIdx] IN
         /\ unlinked' = unlinked \cup {f}
         /\ IF f \in files
            THEN \E ok \in BOOLEAN :
                   IF ok
                   THEN /\ files' = files \ {f}
                        /\ UNCHANGED unlinkFailed
                   ELSE /\ unlinkFailed' = unlinkFailed \cup {f}
                        /\ UNCHANGED files
            ELSE /\ unlinkFailed' = unlinkFailed \cup {f}
                 /\ UNCHANGED files
    /\ cleanupIdx' = cleanupIdx + 1
    /\ UNCHANGED <<env, hgOutcome, faults, pc, audioPath, tempVideoPath, audioDuration,
                   videoUrl, usedFallback, pending, result, error,
                   lipOutcome, lipError, lipErrorKind, fbOutcome, fallbackError,
                   uploadedUrl, attempts, calls, lipStatus, hgStatus>>

\* The finally block is over: the pending return or throw completes.
Finish ==
    /\ pc = "cleanup"
    /\ cleanupIdx > Len(FilesToCleanup(audioPath, tempVideoPath))
    /\ result' = IF pending = "return" THEN "returned" ELSE "thrown"
    /\ pc' = "done"
    /\ UNCHANGED <<env, hgOutcome, faults, audioPath, tempVideoPath, audioDuration, files,
                   videoUrl, usedFallback, pending, error, lipOutcome,
                   lipError, lipErrorKind, fbOutcome, fallbackError, uploadedUrl, attempts,
                   calls, lipStatus, hgStatus, unlinked, unlinkFailed,
                   cleanupIdx>>

----------------------------------------------------------------------------
(* Direct-provider pipeline: generateHeyGenVideo and checkHeyGenVideoStatus *)

HeyGenStatuses == {"pending", "processing", "completed", "failed"}

\* Answers of the HeyGen status endpoint; status "ERR" is a rejected request.
\* live is what a HEAD request of video_url answers at that moment.
HeyGenResponses ==
    {[code |-> c, status |-> s, video_url |-> NoUrl, live |-> "none"] :
        c \in {100, 400}, s \in HeyGenStatuses}
    \cup {[code |-> c, status |-> s, video_url |-> HeyGenUrl, live |-> h] :
        c \in {100, 400}, s \in HeyGenStatuses,
        h \in {"200", "non200", "throw"}}
    \cup {[code |-> 0, status |-> "ERR", video_url |-> NoUrl, live |-> "none"]}

\* The loop body of checkHeyGenVideoStatus:
\*   "return"  return videoUrl
\*   "wait"    sleep pollInterval; attempts++
\*   "backoff" the inner catch: sleep backoffTime; attempts++
\* A failed status throws inside the inner try, so the inner catch takes it.

\* ttsService.ts: code 100 is required, and completed counts only when
\* axios.head(videoUrl) answers 200
HeyGenVerdictHead(resp) ==
    IF resp.status = "ERR" THEN "backoff"
    ELSE IF resp.code # 100 THEN "wait"
    ELSE IF resp.status = "completed" /\ resp.video_url # NoUrl
                                      /\ resp.live = "200" THEN "return"
    ELSE IF resp.status = "failed" THEN "backoff"
    ELSE "wait"

\* part_006: completed with a video_url returns at once
HeyGenVerdictNoHead(resp) ==
    IF resp.status = "ERR" THEN "backoff"
    ELSE IF resp.status = "completed" /\ resp.video_url # NoUrl THEN "return"
    ELSE IF resp.status = "failed" THEN "backoff"
    ELSE "wait"

HeyGenVerdict(v, resp) ==
    IF v = "ttsDirect" THEN HeyGenVerdictHead(resp)
    ELSE HeyGenVerdictNoHead(resp)

Min(a, b) == IF a <= b THEN a ELSE b

\* const pollInterval = 30000 (ttsService.ts), 10000 (part_006)
HeyGenPollInterval(v) == IF v = "ttsDirect" THEN 30000 ELSE 10000

\* await new Promise((resolve) => setTimeout(resolve, 30000)) before the
\* loop, in ttsService.ts only
InitialDelay(v) == IF v = "ttsDirect" THEN 30000 ELSE 0

\* Math.min(pollInterval * (attempts + 1), 60000) resp. (..., 30000)
BackoffCap_Uncapped(v) == 600000

BackoffCap(v) == IF v = "ttsDirect" THEN 60000 ELSE 30000

\* Values of Math.floor(Math.random() * 5000); part_006 adds no jitter
JitterSamples(v) ==
    IF v = "ttsDirect" THEN {0, 2500, JitterRange - 1} ELSE {0}

\* const backoffTime = baseDelay + jitter
BackoffTime(v, a, jitter) ==
    Min(HeyGenPollInterval(v) * (a + 1), BackoffCap(v)) + jitter

\* attempts++ at the end of the try block and at the end of the catch block
NextAttempts_SkipOnError(a, verdict) ==
    IF verdict = "backoff" THEN a + 2 ELSE a + 1

NextAttempts(a, verdict) == a + 1

\* The wait that ends a loop iteration which did not return
PollDelay(v, verdict, a, jitter) ==
    IF verdict = "backoff" THEN BackoffTime(v, a, jitter)
    ELSE HeyGenPollInterval(v)

\* axios.head(videoUrl) is requested by ttsService.ts only
HeadRequested(v, resp) ==
    /\ v = "ttsDirect"
    /\ resp.status # "ERR"
    /\ resp.code = 100
    /\ resp.status = "completed"
    /\ resp.video_url # NoUrl

\* let usedFallback = false, never assigned again
DirectUsedFallback_True == TRUE

DirectUsedFallback == FALSE

\* An exception leaves generateHeyGenVideo and generateVideoFromText.
DirectThrow(kind, e) ==
    /\ hgOutcome' = kind
    /\ error' = OuterCatch(variant, e)
    /\ pending' = "throw"
    /\ result' = "thrown"
    /\ pc' = "done"

\* generateHeyGenVideo: if (!process.env.HEYGEN_API_KEY) throw ...
HeyGenKeyCheck_NoCheck ==
    /\ pc = "start"
    /\ variant \in DirectVariants
    /\ IF TRUE
       THEN /\ pc' = "hg_submit"
            /\ UNCHANGED <<hgOutcome, error, pending, result>>
       ELSE DirectThrow("nokey", <<"HEYGEN_API_KEY not set">>)
    /\ UNCHANGED <<env, localVars, videoUrl, attempts, calls, hgStatus>>

HeyGenKeyCheck ==
    /\ pc = "start"
    /\ variant \in DirectVariants
    /\ IF heygenKey
       THEN /\ pc' = "hg_submit"
            /\ UNCHANGED <<hgOutcome, error, pending, result>>
       ELSE DirectThrow("nokey", <<"HEYGEN_API_KEY not set">>)
    /\ UNCHANGED <<env, localVars, videoUrl, attempts, calls, hgStatus>>

\* axios.post('https://api.heygen.com/v2/video/generate', ...);
\* if (!response.data?.data?.video_id) throw ...
HeyGenSubmit ==
    /\ pc = "hg_submit"
    /\ calls' = Called("submit")
    /\ \E r \in {"id", "noId", "networkError"} :
         IF r = "id"
         THEN /\ pc' = "hg_status"
              /\ UNCHANGED <<hgOutcome, error, pending, result>>
         ELSE IF r = "noId"
         THEN DirectThrow("noId", <<"No video ID in response">>)
         ELSE DirectThrow("submitError", <<"Request failed">>)
    /\ UNCHANGED <<env, localVars, videoUrl, attempts, hgStatus>>

\* checkHeyGenVideoStatus up to the loop: credential check, attempts = 0,
\* and in ttsService.ts the 30 s wait before the first status check
HeyGenStatusEntry ==
    /\ pc = "hg_status"
    /\ IF heygenKey
       THEN /\ pc' = "hg_poll"
            /\ attempts' = 0
            /\ initialWait' = InitialDelay(variant)
            /\ lastDelay' = InitialDelay(variant)
            /\ UNCHANGED <<hgOutcome, error, pending, result>>
       ELSE /\ DirectThrow("nokey", <<"HEYGEN_API_KEY not set">>)
            /\ UNCHANGED <<attempts, initialWait, lastDelay>>
    /\ UNCHANGED <<base, localVars, videoUrl, calls, hgStatus>>

\* One iteration of while (attempts < maxAttempts) { try {...} catch {...} }
HeyGenPoll ==
    /\ pc = "hg_poll"
    /\ attempts < maxAttempts
    /\ \E resp \in HeyGenResponses, jitter \in JitterSamples(variant) :
         /\ hgStatus' = resp
         /\ calls' = [calls EXCEPT
                        !["poll"] = @ + 1,
                        !["head"] = IF HeadRequested(variant, resp)
                                    THEN @ + 1 ELSE @]
         /\ IF HeyGenVerdict(variant, resp) = "return"
            THEN /\ videoUrl' = resp.video_url
                 /\ pc' = "hg_return"
                 /\ UNCHANGED <<attempts, lastDelay>>
            ELSE /\ lastDelay' = PollDelay(variant, HeyGenVerdict(variant, resp),
                                            attempts, jitter)
                 /\ attempts' = NextAttempts(attempts,
                                             HeyGenVerdict(variant, resp))
                 /\ UNCHANGED <<videoUrl, pc>>
    /\ UNCHANGED <<base, initialWait, localVars, hgOutcome, error, pending,
                   result>>

\* The loop ends: throw new Error(`HeyGen video processing timed out ...`)
HeyGenTimeout ==
    /\ pc = "hg_poll"
    /\ attempts >= maxAttempts
    /\ DirectThrow("timeout", <<"HeyGen video processing timed out">>)
    /\ UNCHANGED <<env, localVars, videoUrl, attempts, calls, hgStatus>>

\* generateVideoFromText: if (!videoUrl) throw ...;
\* return { videoUrl, usedFallback }
DirectReturn ==
    /\ pc = "hg_return"
    /\ IF IsFalsyUrl(videoUrl)
       THEN DirectThrow("noUrl", <<"Failed to generate video: No URL returned">>)
       ELSE /\ hgOutcome' = "completed"
            /\ pending' = "return"
            /\ result' = "returned"
            /\ pc' = "done"
            /\ UNCHANGED error
    /\ usedFallback' = DirectUsedFallback
    /\ UNCHANGED <<env, audioPath, tempVideoPath, audioDuration, files,
                   lipOutcome, lipError, lipErrorKind, fbOutcome, fallbackError,
                   uploadedUrl, lipStatus, unlinked, unlinkFailed,
                   cleanupIdx, faults>>
    /\ UNCHANGED <<videoUrl, attempts, calls, hgStatus>>

----------------------------------------------------------------------------
(* The POST handler around generateVideoFromText: app/api/generate-video/  *)
(* route.ts calls the direct-provider service, unnamed/part_000 the local  *)
(* one.                                                                    *)

\* errorMessage.includes('high demand') || errorMessage.includes('Model too busy')
RetryableMessages ==
    {"Service is currently experiencing high demand", "Model too busy"}

Retryable(e) == \E i \in 1..Len(e) : e[i] \in RetryableMessages

\* The body the outer catch answers with; part_000 sends no retryable field
ErrorResponse(v, code, e) ==
    [status |-> code, success |-> FALSE,
     retryable |-> (v \in DirectVariants /\ Retryable(e)),
     videoUrl |-> NoUrl, usedFallback |-> FALSE, error |-> e]

\* NextResponse.json({ videoUrl, success: true, usedFallback, ... })
SuccessResponse(url, fb) ==
    [status |-> 200, success |-> TRUE, retryable |-> FALSE,
     videoUrl |-> url, usedFallback |-> fb, error |-> <<>>]

\* prisma.videoSummary.create({ data: { videoUrl, ..., usedFallback } })
CreateData_FlagDropped(url, fb, ok) ==
    [created |-> ok, videoUrl |-> url, usedFallback |-> FALSE]

CreateData(url, fb, ok) ==
    [created |-> ok, videoUrl |-> url, usedFallback |-> fb]

\* Answers given before generateVideoFromText is called: the early returns
\* and the errors fetchAndSummarizeArticle throws into the outer catch
EarlyResponses(v) ==
    IF v \in DirectVariants
    THEN {[status |-> 400, success |-> FALSE, retryable |-> FALSE,
           videoUrl |-> NoUrl, usedFallback |-> FALSE,
           error |-> <<"URL and avatar are required">>],
          ErrorResponse(v, 500,
              <<"Service is currently experiencing high demand">>),
          ErrorResponse(v, 500, <<"Failed to generate summary">>)}
    ELSE {ErrorResponse(v, 400,
              <<"URL, avatar, and voice type are required">>),
          ErrorResponse(v, 500, <<"Failed to fetch and summarize article">>),
          ErrorResponse(v, 400, <<"Invalid avatar selected">>),
          ErrorResponse(v, 404, <<"Avatar file not found">>)}

\* POST answers without having called generateVideoFromText
RouteReject ==
    /\ pc = "start"
    /\ \E r \in EarlyResponses(variant) : response' = r
    /\ pc' = "rejected"
    /\ UNCHANGED <<variant, syncKey, heygenKey, sideVars, dbCalls, recorded,
                   lastDelay, initialWait, localVars, hgOutcome, videoUrl,
                   pending, result, error, attempts, calls, hgStatus>>

\* POST after await videoService.generateVideoFromText(...): a thrown error
\* goes to the outer catch; a result is saved and answered
RouteAfterRun ==
    /\ pc = "done"
    /\ response = NoResponse
    /\ IF result = "thrown"
       THEN /\ response' = ErrorResponse(variant, 500, error)
            /\ UNCHANGED <<dbCalls, recorded>>
       ELSE IF variant \in DirectVariants /\ IsFalsyUrl(videoUrl)
       THEN /\ response' = ErrorResponse(variant, 500,
                       <<"Failed to generate video: No URL returned">>)
            /\ UNCHANGED <<dbCalls, recorded>>
       ELSE \E ok \in BOOLEAN :
            /\ dbCalls' = dbCalls + 1
            /\ recorded' = CreateData(videoUrl, usedFallback, ok)
            /\ response' =
                 IF ok \/ variant \in DirectVariants
                 THEN SuccessResponse(videoUrl, usedFallback)
                 ELSE ErrorResponse(variant, 500, <<"Database error">>)
    /\ UNCHANGED <<variant, syncKey, heygenKey, sideVars, lastDelay,
                   initialWait, localVars, hgOutcome, videoUrl, pending,
                   result, error, attempts, calls, hgStatus, pc>>

----------------------------------------------------------------------------
Next ==
    \/ GenerateSpeech
    \/ GetAudioDuration
    \/ GenerateVideoFromImage
    \/ LipSyncKeyCheck
    \/ UploadVideo
    \/ UploadAudio
    \/ SubmitLipSync
    \/ LipSyncPoll
    \/ LipSyncTimeout
    \/ FallbackEncode
    \/ FallbackUpload
    \/ FallbackUnlink
    \/ CheckUrl
    \/ CleanupUnlink
    \/ Finish
    \/ HeyGenKeyCheck
    \/ HeyGenSubmit
    \/ HeyGenStatusEntry
    \/ HeyGenPoll
    \/ HeyGenTimeout
    \/ DirectReturn
    \/ RouteReject
    \/ RouteAfterRun

Spec == Init /\ [][Next]_vars

\* Every run that can take a step eventually takes one
FairSpec == Spec /\ WF_vars(Next)

----------------------------------------------------------------------------
(* Two concurrent runs of the local pipeline in one process: only what the *)
(* runs share, the clock behind Date.now() and the files of os.tmpdir().   *)

\* Milliseconds of Date.now() the two runs are followed over
MaxClock == 3

\* State of the single run, which the two-run model leaves alone
singleVars == <<variant, syncKey, heygenKey, routeVars, textVars, lastDelay,
                initialWait, localVars, hgOutcome, pc, videoUrl, pending,
                result, error, attempts, calls, hgStatus>>

\* path.join(tempDir, `speech-${Date.now()}.mp3`) and the like: the name is
\* the kind and the millisecond it was chosen in
TempName(kind, stamp) == <<kind, stamp>>

InitConc ==
    /\ Init
    /\ variant = "videoService"
    /\ syncKey
    /\ heygenKey

\* A millisecond passes
Tick ==
    /\ now < MaxClock
    /\ now' = now + 1
    /\ UNCHANGED <<singleVars, runPc, runPaths, disk>>

\* generateSpeech: the name is chosen after synthesizeSpeech has answered,
\* then fs.promises.writeFile(audioPath, ...)
ConcGenerateSpeech(r) ==
    /\ runPc[r] = "synth"
    /\ \E ok \in BOOLEAN :
         IF ok
         THEN /\ runPaths' = [runPaths EXCEPT ![r]["speech"] = now]
              /\ disk' = disk \cup {TempName("speech", now)}
              /\ runPc' = [runPc EXCEPT ![r] = "compose"]
         ELSE /\ runPc' = [runPc EXCEPT ![r] = "done"]
              /\ UNCHANGED <<runPaths, disk>>
    /\ UNCHANGED <<singleVars, now>>

\* tempVideoPath = path.join(os.tmpdir(), `temp-${Date.now()}.mp4`);
\* await this.generateVideoFromImage(...)
ConcGenerateVideoFromImage(r) ==
    /\ runPc[r] = "compose"
    /\ runPaths' = [runPaths EXCEPT ![r]["temp"] = now]
    /\ \E ok \in BOOLEAN :
         IF ok
         THEN /\ disk' = disk \cup {TempName("temp", now)}
              /\ runPc' = [runPc EXCEPT ![r] = "lipsync"]
         ELSE /\ runPc' = [runPc EXCEPT ![r] = "cleanup"]
              /\ UNCHANGED disk
    /\ UNCHANGED <<singleVars, now>>

\* generateLipSyncVideo returns a URL or throws; it writes no file
ConcLipSync(r) ==
    /\ runPc[r] = "lipsync"
    /\ \E ok \in BOOLEAN :
         runPc' = [runPc EXCEPT ![r] = IF ok THEN "cleanup" ELSE "fallback"]
    /\ UNCHANGED <<singleVars, now, runPaths, disk>>

\* generateFallbackVideo: enhancedVideoPath = `enhanced-${Date.now()}.mp4`,
\* ffmpeg writes it
ConcFallbackEncode(r) ==
    /\ runPc[r] = "fallback"
    /\ runPaths' = [runPaths EXCEPT ![r]["enhanced"] = now]
    /\ disk' = disk \cup {TempName("enhanced", now)}
    /\ runPc' = [runPc EXCEPT ![r] = "fb_unlink"]
    /\ UNCHANGED <<singleVars, now>>

\* generateFallbackVideo: fsPromises.unlink(enhancedVideoPath) after upload
ConcFallbackUnlink(r) ==
    /\ runPc[r] = "fb_unlink"
    /\ disk' = disk \ {TempName("enhanced", runPaths[r]["enhanced"])}
    /\ runPc' = [runPc EXCEPT ![r] = "cleanup"]
    /\ UNCHANGED <<singleVars, now, runPaths>>

\* finally: fsPromises.unlink of audioPath and tempVideoPath
ConcCleanup(r) ==
    /\ runPc[r] = "cleanup"
    /\ disk' = disk \ {TempName("speech", runPaths[r]["speech"]),
                        TempName("temp", runPaths[r]["temp"])}
    /\ runPc' = [runPc EXCEPT ![r] = "done"]
    /\ UNCHANGED <<singleVars, now, runPaths>>

NextConc ==
    \/ Tick
    \/ \E r \in Runs : ConcGenerateSpeech(r)
    \/ \E r \in Runs : ConcGenerateVideoFromImage(r)
    \/ \E r \in Runs : ConcLipSync(r)
    \/ \E r \in Runs : ConcFallbackEncode(r)
    \/ \E r \in Runs : ConcFallbackUnlink(r)
    \/ \E r \in Runs : ConcCleanup(r)

SpecConc == InitConc /\ [][NextConc]_vars

----------------------------------------------------------------------------
(* The text generateHeyGenVideo sends to the provider. A text is described *)
(* by what the sanitization looks at: its words (all of one length, single *)
(* spaces between them), whether the words hold a vowel, whether the text  *)
(* holds a sentence boundary, and how many characters the clean-up drops.  *)

\* sanitizedText.slice(0, 1000)
TextLimit == 1000

\* .slice(0, 200) of part_006
ShortTextLimit == 200

\* sanitizedText.length < 20
MinTextLength == 20

\* sanitizedText.length > 100
FormatThreshold == 100

\* word.length > 7 && !/[aeiou]/i.test(word)
GarbledWordLength == 7

\* if (wordCount >= 10 ...)
SentenceWords == 10

\* "This article discusses the latest news and developments. Please read
\* the full article for more details.".length
GenericSentenceLength == 103

TextWordCounts == {0, 1, 3, 5, 12, 40, 150, 180, 200, 250}

TextWordLengths == {3, 4, 5, 9}

TextInputs ==
    {[words |-> n, wordLen |-> w, vowels |-> v, breaks |-> b, dropped |-> d] :
        n \in TextWordCounts, w \in TextWordLengths, v \in BOOLEAN,
        b \in BOOLEAN, d \in {0, 5}}

\* config.text.length
RawLength(t) ==
    (IF t.words = 0 THEN 0 ELSE t.words * t.wordLen + t.words - 1) + t.dropped

\* Length after .replace(...).replace(...).replace(...).trim()
SanitizedLength(t) ==
    IF t.words = 0 THEN 0 ELSE t.words * t.wordLen + t.words - 1

\* words.length of sanitizedText.split(/\s+/); ''.split gives ['']
WordCount(t) == IF t.words = 0 THEN 1 ELSE t.words

\* words.filter(word => word.length > 7 && !/[aeiou]/i.test(word)).length
GarbledWordCount(t) ==
    IF t.wordLen > GarbledWordLength /\ ~t.vowels THEN t.words ELSE 0

\* if (garbledRatio > 0.1 || sanitizedText.length < 20)
UsesGenericSentence(t) ==
    \/ 10 * GarbledWordCount(t) > WordCount(t)
    \/ SanitizedLength(t) < MinTextLength

\* The tokens of sanitizedText.slice(0, 1000).split(/\s+/): their number,
\* the sum of their lengths and the length of the last one, which the
\* slice may have cut
SlicedTokens(t) ==
    IF SanitizedLength(t) <= TextLimit
    THEN [count |-> t.words, sum |-> t.words * t.wordLen, last |-> t.wordLen]
    ELSE LET full == TextLimit \div (t.wordLen + 1)
             rest == TextLimit % (t.wordLen + 1)
         IN  [count |-> full + 1, sum |-> full * t.wordLen + rest,
              last |-> rest]

\* Length of formattedText.trim(): every ten words become a sentence that
\* ends in '. ', the words left over a sentence that ends in '.'
FormattedLength(t) ==
    LET tk == SlicedTokens(t)
        sentences == tk.count \div SentenceWords
        left == tk.count % SentenceWords
        leftSum == IF left = 0 THEN 0 ELSE (left - 1) * t.wordLen + tk.last
        leftLen == IF left = 0 THEN 0 ELSE leftSum + (left - 1)
        body == (tk.sum - leftSum) + sentences * (SentenceWords - 1 + 2)
    IN  IF leftLen = 0
        THEN IF sentences > 0 THEN body - 1 ELSE 0
        ELSE body + leftLen + 1

\* Length of the input_text of the request
SubmittedLength(v, t) ==
    IF v = "part006" THEN Min(RawLength(t), ShortTextLimit)
    ELSE IF UsesGenericSentence(t) THEN Min(GenericSentenceLength, TextLimit)
    ELSE IF ~t.breaks /\ Min(SanitizedLength(t), TextLimit) > FormatThreshold
    THEN FormattedLength(t)
    ELSE Min(SanitizedLength(t), TextLimit)

InitText ==
    /\ InitRun
    /\ variant \in DirectVariants
    /\ syncKey
    /\ heygenKey
    /\ inputText \in TextInputs
    /\ submittedText = NoSubmission

\* generateHeyGenVideo from the clean-up of config.text to the request body
SubmitText ==
    /\ ~submittedText.sent
    /\ submittedText' =
         [sent |-> TRUE,
          length |-> SubmittedLength(variant, inputText),
          generic |-> (variant = "ttsDirect"
                         /\ UsesGenericSentence(inputText))]
    /\ UNCHANGED <<variant, syncKey, heygenKey, routeVars, concVars,
                   inputText, lastDelay, initialWait, localVars, hgOutcome,
                   pc, videoUrl, pending, result, error, attempts, calls,
                   hgStatus>>

NextText == SubmitText

SpecText == InitText /\ [][NextText]_vars

TypeOK ==
    /\ variant \in Variants
    /\ attempts \in 0..maxAttempts
    /\ files \subseteq {"speech", "temp", "enhanced"}
    /\ result \in {"none", "returned", "thrown"}
    /\ videoUrl \in {NoUrl, LipSyncUrl, FallbackUrl, HeyGenUrl}

----------------------------------------------------------------------------
(* Properties of the local pipeline *)

Local == variant \in LocalVariants

Direct == variant \in DirectVariants

IsSuffix(s, t) ==
    /\ Len(s) <= Len(t)
    /\ SubSeq(t, Len(t) - Len(s) + 1, Len(t)) = s

\* C1: every result the local pipeline returns has usedFallback = TRUE
\* exactly when generateLipSyncVideo returned no URL in that run, and
\* usedFallback = FALSE exactly when videoUrl is the provider's outputUrl.
C1_UsedFallbackIffNoLipSync ==
    (Local /\ result = "returned") =>
        /\ usedFallback <=> (lipOutcome # "completed")
        /\ ~usedFallback <=> (videoUrl = LipSyncUrl)

C1_Witness ==
    /\ Local
    /\ result = "returned"
    /\ usedFallback
    /\ lipOutcome \notin {"none", "completed"}
    /\ videoUrl = FallbackUrl

\* C2: when the local pipeline has ended, none of speech-*.mp3, temp-*.mp4
\* and enhanced-*.mp4 is left on disk; stated for the runs in which no
\* fs.unlink call failed.
C2_NoTempFileRemains ==
    (Local /\ pc = "done" /\ unlinkFailed = {}) => files = {}

\* C3, as claimed: once the provider has reported FAILED, the run ends with
\* a result, usedFallback = TRUE, after one call of generateFallbackVideo.
C3_FailedStatusNeverThrows ==
    (Local /\ pc = "done" /\ lipOutcome = "failed") =>
        /\ result = "returned"
        /\ usedFallback
        /\ calls["fallback"] = 1

\* C3, amended: once the provider has reported FAILED, generateFallbackVideo
\* is called exactly once, on the baseline video that is still on disk; the
\* run returns a result, with usedFallback = TRUE and the fallback URL,
\* exactly when the fallback returned a non-empty URL, and throws exactly
\* when the fallback threw or returned no URL.
C3_FailedStatusFallsBack ==
    (Local /\ lipOutcome = "failed") =>
        /\ lipStatus.status = "FAILED"
        /\ pc \in {"fb_encode", "fb_upload", "fb_unlink", "check_url",
                   "cleanup", "done"}
        /\ calls["fallback"] = IF pc = "fb_encode" THEN 0 ELSE 1
        /\ pc = "fb_encode" => (tempVideoPath /\ "temp" \in files)
        /\ pc = "done" => (result = "returned" <=> fbOutcome = "url")
        /\ pc = "done" => (result = "thrown" <=> fbOutcome \in {"threw", "empty"})
        /\ result = "returned" => (usedFallback /\ videoUrl = FallbackUrl)

C3_Witness ==
    /\ Local
    /\ pc = "done"
    /\ lipOutcome = "failed"
    /\ lipStatus.status = "FAILED"
    /\ result = "returned"
    /\ usedFallback

\* What the caller of generateVideoFromText observes of a finished run.
ObservableOutcome ==
    [result |-> result,
     videoUrl |-> IF result = "returned" THEN videoUrl ELSE NoUrl,
     usedFallback |-> IF result = "returned" THEN usedFallback ELSE FALSE,
     error |-> error]

\* The outcome of a run as decided by generateFallbackVideo alone.
OutcomeOfFallback(v, fb, fe) ==
    IF fb = "url"
    THEN [result |-> "returned", videoUrl |-> FallbackUrl,
          usedFallback |-> TRUE, error |-> <<>>]
    ELSE [result |-> "thrown", videoUrl |-> NoUrl, usedFallback |-> FALSE,
          error |-> IF fb = "empty"
                    THEN OuterCatch(v, <<"Failed to generate video: No URL returned">>)
                    ELSE OuterCatch(v, fe)]

\* C4, as claimed: a run whose polling ran out of attempts and a run whose
\* provider reported FAILED both end with one call of the fallback and the
\* result {videoUrl = fallback URL, usedFallback = TRUE}.
C4_TimeoutAndFailureReturnFallback ==
    \A kind \in {"timeout", "failed"} :
        (Local /\ pc = "done" /\ lipOutcome = kind) =>
            /\ calls["fallback"] = 1
            /\ result = "returned"
            /\ videoUrl = FallbackUrl
            /\ usedFallback

\* C4, amended: a run whose polling ran out of attempts and a run whose
\* provider reported FAILED end the same way: one call of the fallback on
\* the baseline video, and an observable outcome that depends on what the
\* fallback did only - {fallback URL, usedFallback = TRUE} when it returned
\* a URL, the same thrown error when it did not.
C4_TimeoutSameAsFailure ==
    \A kind \in {"timeout", "failed"} :
        (Local /\ lipOutcome = kind) =>
            /\ calls["fallback"] = IF pc = "fb_encode" THEN 0 ELSE 1
            /\ pc = "fb_encode" => (tempVideoPath /\ "temp" \in files)
            /\ pc = "done" =>
                 ObservableOutcome =
                     OutcomeOfFallback(variant, fbOutcome, fallbackError)

C4_Witness ==
    /\ Local
    /\ pc = "done"
    /\ lipOutcome = "timeout"
    /\ calls["poll"] = maxAttempts
    /\ result = "returned"
    /\ videoUrl = FallbackUrl
    /\ usedFallback

\* C5: whenever a status poll, the first or any later one up to the 30th,
\* answers COMPLETED with a non-empty outputUrl, generateLipSyncVideo returns
\* that URL, the run returns it with usedFallback = FALSE, and the fallback
\* is never called.
C5_CompletedOnAnyPollSucceeds ==
    (Local /\ lipStatus.status = "COMPLETED" /\ lipStatus.outputUrl # NoUrl) =>
        /\ calls["poll"] \in 1..maxAttempts
        /\ attempts = calls["poll"] - 1
        /\ lipOutcome = "completed"
        /\ videoUrl = lipStatus.outputUrl
        /\ ~usedFallback
        /\ calls["fallback"] = 0
        /\ pending # "throw"
        /\ pc = "done" => result = "returned"

C5_Witness ==
    /\ Local
    /\ pc = "done"
    /\ calls["poll"] = maxAttempts
    /\ lipStatus.status = "COMPLETED"
    /\ result = "returned"
    /\ videoUrl = LipSyncUrl
    /\ ~usedFallback

\* C6: in every implementation a returned result has a non-empty videoUrl,
\* and a finished run that holds no URL has thrown.
C6_ResultHasUrl ==
    /\ result = "returned" => videoUrl # NoUrl
    /\ (pc = "done" /\ videoUrl = NoUrl) => result = "thrown"

C6_Witness ==
    /\ pc = "done"
    /\ fbOutcome = "empty"
    /\ videoUrl = NoUrl
    /\ result = "thrown"

\* C7: once generateSpeech has failed the run only cleans up and throws: no
\* duration probe, composition, upload, lip-sync call, submission, status
\* poll or fallback is performed.
C7_SynthesisFailureAborts ==
    ("synth" \in faults) =>
        /\ pc \in {"cleanup", "done"}
        /\ pending = "throw"
        /\ \A st \in Stages \ {"synth"} : calls[st] = 0
        /\ pc = "done" => result = "thrown"

C7_Witness ==
    /\ pc = "done"
    /\ "synth" \in faults
    /\ result = "thrown"
    /\ calls["synth"] = 1

\* C8, as claimed: once generateVideoFromImage has failed the run throws,
\* neither generateLipSyncVideo nor generateFallbackVideo is called, and the
\* audio file is gone when the run has ended.
C8_CompositionFailureDeletesAudio ==
    ("compose" \in faults) =>
        /\ pc \in {"cleanup", "done"}
        /\ pending = "throw"
        /\ calls["lipsync"] = 0
        /\ calls["fallback"] = 0
        /\ pc = "done" => (result = "thrown" /\ "speech" \notin files)

\* C8, amended: once generateVideoFromImage has failed the run throws,
\* neither generateLipSyncVideo nor generateFallbackVideo is called, and
\* fs.unlink is still called on the audio file, which is gone when the run
\* has ended unless that unlink call itself failed.
C8_CompositionFailureAborts ==
    ("compose" \in faults) =>
        /\ pc \in {"cleanup", "done"}
        /\ pending = "throw"
        /\ calls["lipsync"] = 0
        /\ calls["fallback"] = 0
        /\ calls["upload"] = 0
        /\ pc = "done" =>
             /\ result = "thrown"
             /\ "speech" \in unlinked
             /\ "speech" \notin unlinkFailed => "speech" \notin files

C8_Witness ==
    /\ pc = "done"
    /\ "compose" \in faults
    /\ result = "thrown"
    /\ "speech" \in unlinked
    /\ "speech" \notin files

\* C9: once generateFallbackVideo has thrown after a failed lip-sync stage,
\* the run throws an error whose message chain ends with the fallback's
\* error; the lip-sync stage and the fallback are not called again and no
\* result is returned.
C9_FallbackFailureIsFatal ==
    (Local /\ fbOutcome = "threw") =>
        /\ lipOutcome \notin {"none", "completed"}
        /\ pc \in {"cleanup", "done"}
        /\ pending = "throw"
        /\ calls["lipsync"] = 1
        /\ calls["fallback"] = 1
        /\ fallbackError # <<>>
        /\ IsSuffix(fallbackError, error)
        /\ pc = "done" => result = "thrown"

C9_Witness ==
    /\ variant = "videoService"
    /\ pc = "done"
    /\ lipOutcome = "failed"
    /\ fbOutcome = "threw"
    /\ result = "thrown"
    /\ error = <<"Failed to generate video from text",
                 "Failed to generate fallback video",
                 "Failed to upload file to Cloudinary">>

\* C10: in the direct-provider pipeline a status answer of completed with a
\* video URL whose HEAD check does not answer 200 is never taken as success:
\* the loop goes on polling.
C10_NoSuccessOnDeadUrl ==
    (Direct /\ hgStatus.status = "completed" /\ hgStatus.video_url # NoUrl
            /\ hgStatus.live # "200") =>
        /\ pc # "hg_return"
        /\ result # "returned"

----------------------------------------------------------------------------
(* Properties of the direct-provider pipeline and of the POST handler *)

\* C11, as claimed: in the direct-provider pipeline a status answer of
\* failed ends the polling at that poll with a thrown error, so that no
\* further status request follows it.
C11_FailedStatusStopsPolling ==
    (Direct /\ hgStatus.status = "failed") => result = "thrown"

\* C12, as claimed: an error of exhausted status polling is answered by
\* POST as retryable, an error of a missing HEYGEN_API_KEY as not retryable.
C12_TimeoutIsRetryable ==
    (Direct /\ response # NoResponse) =>
        /\ hgOutcome = "timeout" => response.retryable
        /\ hgOutcome = "nokey" => ~response.retryable

\* C13: prisma.videoSummary.create is called at most once per request,
\* only once generateVideoFromText has returned a result and never for a
\* run that threw, and it is handed the videoUrl and usedFallback of that
\* result.
C13_RecordOnceAfterSuccess ==
    /\ dbCalls <= 1
    /\ dbCalls = 0 => recorded = NoRecord
    /\ dbCalls = 1 =>
        /\ pc = "done"
        /\ result = "returned"
        /\ recorded.videoUrl = videoUrl
        /\ recorded.usedFallback = usedFallback
    /\ result # "returned" => dbCalls = 0

C13_Witness ==
    /\ dbCalls = 1
    /\ Local
    /\ usedFallback
    /\ recorded.usedFallback
    /\ recorded.videoUrl = FallbackUrl
    /\ response.success

\* C14: the direct-provider generateVideoFromText never synthesizes speech,
\* probes a duration, composes a video locally or builds the fallback
\* animation, and every result it returns has usedFallback = FALSE.
C14_DirectSkipsLocalStages ==
    Direct =>
        /\ \A st \in {"synth", "probe", "compose", "fallback", "lipsync",
                       "upload"} : calls[st] = 0
        /\ files = {}
        /\ result = "returned" => ~usedFallback

C14_Witness ==
    /\ Direct
    /\ result = "returned"
    /\ videoUrl = HeyGenUrl
    /\ ~usedFallback
    /\ calls["submit"] = 1
    /\ calls["poll"] >= 2

\* C15, as claimed: two concurrent local runs never choose the same
\* temporary path, so the files a run has written stay in place until that
\* run itself removes them.
C15_TempPathsPrivate ==
    /\ \A r1 \in Runs, r2 \in Runs, k \in PathKinds :
          (r1 # r2 /\ runPaths[r1][k] # NoStamp) =>
              runPaths[r1][k] # runPaths[r2][k]
    /\ \A r \in Runs :
          runPc[r] \in {"compose", "lipsync", "fallback", "fb_unlink",
                        "cleanup"} =>
              TempName("speech", runPaths[r]["speech"]) \in disk

----------------------------------------------------------------------------
(* Properties of the polling loops *)

\* The polling loop of generateLipSyncVideo has been left
LipLoopExited ==
    Local /\ lipOutcome \in {"completed", "failed", "pollError", "timeout"}

\* The polling loop of checkHeyGenVideoStatus has been left
HgLoopExited ==
    Direct /\ (pc = "hg_return"
               \/ hgOutcome \in {"completed", "noUrl", "timeout"})

\* The last status answer was completed with a URL, and that URL is returned
ExitCompleted ==
    \/ /\ Local
       /\ lipStatus.status = "COMPLETED"
       /\ lipStatus.outputUrl # NoUrl
       /\ lipOutcome = "completed"
       /\ videoUrl = lipStatus.outputUrl
    \/ /\ Direct
       /\ hgStatus.status = "completed"
       /\ hgStatus.video_url # NoUrl
       /\ hgOutcome # "timeout"
       /\ videoUrl = hgStatus.video_url

\* The last status answer was failed, and an error with the provider's
\* detail is thrown
ExitFailed ==
    /\ Local
    /\ lipStatus.status = "FAILED"
    /\ lipOutcome = "failed"
    /\ lipError # <<>>
    /\ lipStatus.error # "" => lipError[Len(lipError)] = lipStatus.error

\* The attempt budget is spent, and the timeout error is thrown
ExitTimeout ==
    /\ attempts = 30
    /\ calls["poll"] = 30
    /\ \/ Local /\ lipOutcome = "timeout" /\ lipError # <<>>
       \/ Direct /\ hgOutcome = "timeout" /\ result = "thrown"

\* The status request itself was rejected, and that error is thrown
ExitRequestError ==
    /\ Local
    /\ lipStatus.status = "ERR"
    /\ lipOutcome = "pollError"
    /\ lipError # <<>>

ExactlyOne(ps) == Cardinality({i \in 1..Len(ps) : ps[i]}) = 1

C17_CompletedWithoutUrlKeepsPolling ==
    (Local /\ lipStatus.status = "COMPLETED" /\ lipStatus.outputUrl = NoUrl)
        =>
        /\ lipOutcome \in {"none", "timeout"}
        /\ videoUrl # LipSyncUrl
        /\ lastDelay = 10000
        /\ attempts = calls["poll"]
        /\ lipOutcome = "none" => (pc = "poll" /\ result = "none")
        /\ lipOutcome = "timeout" => calls["poll"] = 30

C17_Witness ==
    /\ Local
    /\ lipStatus.status = "COMPLETED"
    /\ lipStatus.outputUrl = NoUrl
    /\ pc = "poll"
    /\ attempts >= 1
    /\ attempts < 30
    /\ lastDelay = 10000

\* C18: generateLipSyncVideo's polling always ends: it never makes more
\* than 30 status requests, the timeout error is raised after exactly 30
\* requests, and a run that is polling eventually leaves the loop.
C18_LipSyncPollingTerminates ==
    /\ [](Local => /\ calls["poll"] <= 30
                   /\ lipOutcome = "timeout" =>
                        (calls["poll"] = 30 /\ attempts = 30))
    /\ (Local /\ pc = "poll") ~> (Local /\ lipOutcome # "none")

C18_Witness ==
    /\ Local
    /\ lipOutcome = "timeout"
    /\ calls["poll"] = 30
    /\ lipStatus.status \in {"PENDING", "PROCESSING", "COMPLETED"}

\* C19, as claimed: checkHeyGenVideoStatus makes at most 30 status requests
\* for a video and none of them before the initial fixed delay has elapsed.
C19_NoRequestBeforeInitialDelay ==
    Direct =>
        /\ calls["poll"] <= 30
        /\ calls["poll"] >= 1 => initialWait > 0

\* x doubled k times, never beyond cap
RECURSIVE CappedDouble(_, _, _)
CappedDouble(x, k, cap) ==
    IF x >= cap THEN cap
    ELSE IF k = 0 THEN x
    ELSE CappedDouble(2 * x, k - 1, cap)

\* The last status answer sent the loop into its catch block
LastPollFailed ==
    \/ hgStatus.status = "ERR"
    \/ hgStatus.status = "failed" /\ (variant = "part006" \/ hgStatus.code = 100)

----------------------------------------------------------------------------
(* Properties of error handling, ordering and clean-up *)

\* C21, as claimed: the error generateLipSyncVideo raises on an exhausted
\* attempt budget is of another kind than the one it raises on a FAILED
\* status, so that the orchestrator can tell the two apart by kind.
C21_TimeoutErrorOfItsOwnKind ==
    (Local /\ lipOutcome = "timeout") => lipErrorKind # ThrownClass(variant, "failed")

\* C22: when the submission response holds no job id, generateLipSyncVideo
\* fails at once: one submission request was made, none follows it, and no
\* status request is ever made in that run.
C22_NoJobIdFailsImmediately ==
    (Local /\ "noId" \in faults) =>
        /\ calls["submit"] = 1
        /\ calls["poll"] = 0
        /\ lipStatus = NoLipStatus
        /\ lipOutcome = "noId"
        /\ lipError # <<>>
        /\ pc \notin {"submit", "poll"}

C22_Witness ==
    /\ Local
    /\ "noId" \in faults
    /\ pc = "done"
    /\ calls["submit"] = 1
    /\ calls["poll"] = 0

\* The ways generateLipSyncVideo ends in an error
LipSyncFailures ==
    {"nokey", "uploadVideo", "uploadAudio", "noId", "submitError",
     "pollError", "failed", "timeout"}

\* C23: in a local run every stage starts only after the stage before it
\* has succeeded, and runs once: synthesis, probe, composition, the two
\* uploads, the submission, the status polls; the fallback starts only
\* after the lip-sync stage has ended in an error.
C23_StagesStrictlyOrdered ==
    Local =>
        /\ \A st \in {"synth", "probe", "compose", "lipsync", "submit",
                       "fallback"} : calls[st] <= 1
        /\ calls["probe"] >= 1 =>
              (calls["synth"] = 1 /\ "synth" \notin faults /\ audioPath)
        /\ calls["compose"] >= 1 => calls["probe"] = 1
        /\ calls["lipsync"] >= 1 =>
              (calls["compose"] = 1 /\ "compose" \notin faults)
        /\ calls["upload"] >= 1 => calls["lipsync"] = 1
        /\ calls["submit"] >= 1 =>
              /\ calls["upload"] >= 2
              /\ lipOutcome \notin {"nokey", "uploadVideo", "uploadAudio"}
        /\ calls["poll"] >= 1 =>
              /\ calls["submit"] = 1
              /\ "noId" \notin faults
              /\ lipOutcome \notin {"noId", "submitError"}
        /\ calls["fallback"] >= 1 =>
              (calls["lipsync"] = 1 /\ lipOutcome \in LipSyncFailures)

C23_Witness ==
    /\ Local
    /\ pc = "done"
    /\ calls["poll"] >= 2
    /\ calls["fallback"] = 1
    /\ lipOutcome = "pollError"
    /\ result = "returned"

\* C24: the audio file and the baseline video are unlinked only in the
\* finally block, after the lip-sync stage and the fallback stage are over,
\* and both files are in place whenever a stage reads them.
C24_TempFilesDeletedOnlyAtEnd ==
    Local =>
        /\ (unlinked \cap {"speech", "temp"} # {}) =>
              pc \in {"cleanup", "done"}
        /\ pc \in {"upload_video", "upload_audio", "fb_encode"} =>
              {"speech", "temp"} \subseteq files

C24_Witness ==
    /\ Local
    /\ pc = "done"
    /\ {"speech", "temp"} \subseteq unlinked
    /\ calls["poll"] >= 1
    /\ calls["fallback"] = 1
    /\ usedFallback
    /\ files = {}

\* C25, as claimed: the value getAudioDuration returns is always a
\* positive number.
C25_DurationAlwaysPositive ==
    (Local /\ calls["probe"] >= 1) => audioDuration > 0

\* C26: with HEYGEN_API_KEY unset the direct-provider run throws without
\* any request to the provider; with SYNC_API_KEY unset generateLipSyncVideo
\* throws without an upload and without a submission.
C26_MissingCredentialFailsFast ==
    /\ (Direct /\ ~heygenKey) =>
          /\ calls["submit"] = 0
          /\ calls["poll"] = 0
          /\ calls["head"] = 0
          /\ pc = "done" => (result = "thrown" /\ hgOutcome = "nokey")
    /\ (Local /\ ~syncKey) =>
          /\ calls["submit"] = 0
          /\ calls["poll"] = 0
          /\ calls["upload"] <= calls["fallback"]
          /\ calls["lipsync"] >= 1 => lipOutcome = "nokey"

C26_Witness ==
    /\ Direct
    /\ ~heygenKey
    /\ pc = "done"
    /\ hgOutcome = "nokey"
    /\ error = <<"HEYGEN_API_KEY not set">>

\* C27: whatever makes generateLipSyncVideo throw, be it a missing
\* SYNC_API_KEY, a failed upload, a failed submission, a failed status
\* request, a FAILED status or a timeout, the run goes on to the fallback
\* animator; it throws only when the fallback itself throws or yields no
\* URL.
C27_EveryLipSyncFailureFallsBack ==
    (Local /\ lipOutcome \in LipSyncFailures) =>
        /\ pc \in {"fb_encode", "fb_upload", "fb_unlink", "check_url",
                    "cleanup", "done"}
        /\ pc # "fb_encode" => calls["fallback"] = 1
        /\ pending = "throw" => fbOutcome \in {"threw", "empty"}
        /\ result = "returned" => (usedFallback /\ videoUrl = FallbackUrl)

C27_Witness ==
    /\ Local
    /\ lipOutcome = "uploadAudio"
    /\ result = "returned"
    /\ usedFallback
    /\ calls["fallback"] = 1
    /\ calls["submit"] = 0

\* C28, as claimed: a run that obtained a video URL, from lip-sync or from
\* the fallback upload, returns it whatever fs.unlink does.
C28_UnlinkFailureKeepsOutcome ==
    (Local /\ pc = "done"
           /\ (lipOutcome = "completed" \/ uploadedUrl # NoUrl)) =>
        result = "returned"

\* C29: in checkHeyGenVideoStatus every iteration that does not return
\* adds exactly one to attempts, after an answer and after a request error
\* alike; a request error ends the run only through the timeout that
\* follows the 30th attempt.
C29_EveryIterationCountsOnce ==
    Direct =>
        /\ pc = "hg_poll" => attempts = calls["poll"]
        /\ pc = "hg_return" => attempts = calls["poll"] - 1
        /\ hgOutcome = "timeout" => (attempts = 30 /\ calls["poll"] = 30)
        /\ (hgStatus.status = "ERR" /\ result = "thrown") =>
              hgOutcome = "timeout"

C29_Witness ==
    /\ Direct
    /\ pc = "hg_poll"
    /\ hgStatus.status = "ERR"
    /\ attempts >= 2
    /\ attempts < 30
    /\ result = "none"

----------------------------------------------------------------------------
(* Properties of the text sent to the provider *)

\* C30, as claimed: the text generateHeyGenVideo of ttsService.ts submits
\* is never longer than 1000 characters and never shorter than 20.
C30_SubmittedTextWithinLimits ==
    (variant = "ttsDirect" /\ submittedText.sent) =>
        /\ submittedText.length <= 1000
        /\ submittedText.length >= 20

====
